---- MODULE Spec2Model ----
(***************************************************************************)
(* ChunkedTranscriber: planning of overlapping chunks, the resumable       *)
(* metadata.json cache, the per-chunk transcription loop with context      *)
(* carry-over, the merge of the chunk transcripts and the polish pass.     *)
(*                                                                         *)
(* Strings are modelled by their structure.  A text is the non-empty       *)
(* sequence of its lines (what split('\n') returns), a line is the         *)
(* sequence of its space-separated tokens; the empty string is the text    *)
(* with one empty line.  Durations are whole seconds.                      *)
(***************************************************************************)
EXTENDS Integers, Sequences, FiniteSets, TLC

\* ---------------------------------------------------------------- bounds
\* Invocations of transcribe on the same source file.
MaxRuns == 3
\* The probed durations of the orchestration model are 500, 1000, ... seconds.
MaxDurationUnits == 3
\* The probed durations of the planning model are -1 .. MaxPlanDuration.
MaxPlanDuration == 1500
\* The answers given to transcribeChunk called on its own have 1 .. MaxLines lines.
MaxLines == 21
\* The lists given to mergeOverlaps called on its own have 0 .. MaxMergeLen elements.
MaxMergeLen == 3
\* The recordings of the coverage model last 1 .. MaxSlots slots of overlapDuration seconds.
MaxSlots == 50
\* The largest size and modification time of the files given to calculateFileHash.
MaxStat == 11
\* The transcripts given to updateContext called on its own have up to MaxWords words.
MaxWords == 502
\* updateContext is applied up to MaxUpdates times in a row.
MaxUpdates == 3

\* Seconds of audio appended to the source between the two ffprobe calls.
MaxGrowth == 1

\* The longest time given to formatTime, in tenths of a second.
MaxFormatTenths == 36650

\* ------------------------------------------------------ program constants
chunkDuration == 600
overlapDuration == 30

Durations == { 500 * k : k \in 1..MaxDurationUnits }
PlanDurations == (-1)..MaxPlanDuration

\* ------------------------------------------------------------------ texts
EmptyText == << <<>> >>

\* What the transcription engine may answer (result.text).
RawTexts ==
  { << <<"**A:**", "hi">> >>,
    << <<"**A:**", "hi">>, <<"**B:**", "yo">> >>,
    EmptyText }

\* What the polish call may answer (result.text); the empty answer is falsy.
PolishTexts == { << <<"**A:**", "hi", "yo">> >>, EmptyText }

\* The name inside a token of the form **Name:** (the regex's capture group).
IsLabel(tok) == tok \in {"**A:**", "**B:**"}
LabelName(tok) == IF tok = "**A:**" THEN "A" ELSE "B"

RECURSIVE Flatten(_)
Flatten(lines) ==
  IF lines = <<>> THEN <<>> ELSE Head(lines) \o Flatten(Tail(lines))

\* Array.prototype.join('\n') read back as a text: no element joins to "".
JoinLines(lines) == IF lines = <<>> THEN EmptyText ELSE lines

InSeq(x, s) == \E k \in 1..Len(s) : s[k] = x

\* A JavaScript Set keeps insertion order and holds no element twice.
RECURSIVE AddAll(_, _)
AddAll(items, toks) ==
  IF toks = <<>> THEN items
  ELSE LET t == Head(toks)
       IN  AddAll(IF IsLabel(t) /\ ~InSeq(LabelName(t), items)
                    THEN Append(items, LabelName(t)) ELSE items,
                  Tail(toks))

JsSet(items) == [kind |-> "Set", items |-> items]
\* JSON.parse(JSON.stringify(new Set(...))) is the plain object {}.
JsPlainObject == [kind |-> "Object", items |-> <<>>]

ExtractSpeakers(raw) == JsSet(AddAll(<<>>, Flatten(raw)))

\* A count rounded down instead of up.
CeilTenth_Floor(n) == n \div 10

\* Math.ceil(totalLines * 0.1)
CeilTenth(n) == (n + 9) \div 10

OverlapLines(hasOverlap, totalLines) ==
  IF hasOverlap THEN CeilTenth(totalLines) ELSE 0

\* lines.slice(0, -overlapLines || undefined)
SliceMain(lines, k) ==
  IF k = 0 THEN lines
  ELSE IF k >= Len(lines) THEN <<>>
  ELSE SubSeq(lines, 1, Len(lines) - k)

\* lines.slice(-overlapLines)
SliceTail(lines, k) ==
  IF k >= Len(lines) THEN lines
  ELSE SubSeq(lines, Len(lines) - k + 1, Len(lines))

\* A transcript that does not take its index from the chunk.
ParseTranscript_IndexZero(chunk, raw) ==
  [chunkIndex |-> 0,
   transcript |-> raw,
   speakers |-> ExtractSpeakers(raw),
   mainContent |-> raw,
   overlapContent |-> EmptyText]

\* transcribeChunk, after the engine has answered raw.
ParseTranscript(chunk, raw) ==
  LET totalLines == Len(raw)
      k == OverlapLines(chunk.hasOverlap, totalLines)
  IN  [chunkIndex |-> chunk.index,
       transcript |-> raw,
       speakers |-> ExtractSpeakers(raw),
       mainContent |-> JoinLines(SliceMain(raw, k)),
       overlapContent |-> IF k > 0 THEN JoinLines(SliceTail(raw, k))
                          ELSE EmptyText]

\* ---------------------------------------------------------------- context
ContextWords == 500

\* transcript.split(/\s+/): a text that starts or ends with white space gives
\* an empty first or last word.
Words(text) ==
  LET flat == Flatten(text)
      lead == IF text[1] = <<>> THEN <<"">> ELSE <<>>
      trail == IF Len(text) > 1 /\ text[Len(text)] = <<>> THEN <<"">> ELSE <<>>
  IN  IF flat = <<>>
        THEN (IF Len(text) = 1 THEN <<"">> ELSE <<"", "">>)
        ELSE lead \o flat \o trail

\* A context that keeps every word.
LastN_All(s, n) == s

LastN(s, n) == IF Len(s) <= n THEN s ELSE SubSeq(s, Len(s) - n + 1, Len(s))

EmptyContext ==
  [previousTranscript |-> <<"">>, speakers |-> <<>>, speakerDescriptions |-> <<>>]

\* A roster in which every speaker of the transcript is set to its own name,
\* present or not.
RECURSIVE MapSetAll_Overwrite(_, _)
MapSetAll_Overwrite(map, names) ==
  IF names = <<>> THEN map
  ELSE LET n == Head(names)
       IN  MapSetAll_Overwrite(
             IF \E k \in 1..Len(map) : map[k].id = n
               THEN [k \in 1..Len(map) |->
                       IF map[k].id = n THEN [id |-> n, name |-> n] ELSE map[k]]
               ELSE Append(map, [id |-> n, name |-> n]),
             Tail(names))

RECURSIVE MapSetAll(_, _)
MapSetAll(map, names) ==
  IF names = <<>> THEN map
  ELSE LET n == Head(names)
       IN  MapSetAll(IF \E k \in 1..Len(map) : map[k].id = n
                       THEN map ELSE Append(map, [id |-> n, name |-> n]),
                     Tail(names))

\* for (const speaker of transcript.speakers) throws a TypeError when the
\* value is not iterable, as the plain object read back from the cache is.
UpdateContextThrows(transcript) == transcript.speakers.kind # "Set"

UpdateContext(context, transcript) ==
  [previousTranscript |-> LastN(Words(transcript.transcript), ContextWords),
   speakers |-> MapSetAll(context.speakers, transcript.speakers.items),
   speakerDescriptions |-> context.speakerDescriptions]

\* ---------------------------------------------------------------- objects
\* updateContext on objects with identity.  A heap is the sequence of the
\* objects allocated so far and a reference is a place in it; a context
\* object holds its trailing text and the references of its two Maps.
\* A Map that is not copied: the reference itself.
NewMap_SameObject(heap, ref) == [heap |-> heap, ref |-> ref]

\* new Map(context.speakers): a new object with the same entries.
NewMap(heap, ref) == [heap |-> Append(heap, heap[ref]), ref |-> Len(heap) + 1]

\* The value of a context object: its Maps in place of their references.
Deref(heap, ref) ==
  [previousTranscript |-> heap[ref].previousTranscript,
   speakers |-> heap[heap[ref].speakers],
   speakerDescriptions |-> heap[heap[ref].speakerDescriptions]]

\* updateContext(context, transcript): the heap after the call and the
\* reference of the returned object.
updateContext(heap, ref, transcript) ==
  LET copied == NewMap(heap, heap[ref].speakers)
      updatedSpeakers == copied.ref
      h == [copied.heap EXCEPT ![updatedSpeakers] =
              MapSetAll(@, transcript.speakers.items)]
  IN  [heap |-> Append(h, [previousTranscript |->
                             LastN(Words(transcript.transcript), ContextWords),
                           speakers |-> updatedSpeakers,
                           speakerDescriptions |-> heap[ref].speakerDescriptions]),
       ref |-> Len(h) + 1]

\* ----------------------------------------------------------------- prompt
\* String concatenation of two texts: the last line of the first goes on with
\* the first line of the second.
Cat(a, b) == SubSeq(a, 1, Len(a) - 1) \o <<a[Len(a)] \o b[1]>> \o Tail(b)

\* The template the prompt starts with: it ends in an empty line and a line
\* break.
Instructions ==
  << <<"Please transcribe this audio segment with the following requirements:">>,
     <<>>,
     <<"1. Identify and label speakers consistently">>,
     <<"2. Format each speaker's dialogue on a new line with \"**Speaker Name:**\" format">>,
     <<"3. Clean up filler words but maintain natural speech patterns">>,
     <<"4. Preserve the meaning and flow of conversation">>,
     <<>>,
     <<>> >>

PreviousHeader == <<"CONTEXT FROM PREVIOUS SEGMENT:">>
SpeakersHeader == <<"IDENTIFIED SPEAKERS SO FAR:">>
SpeakersFooter == <<"Please use these same speaker labels for consistency.">>
Closing == <<"Transcribe the audio now:">>

\* A string is truthy unless it is empty; previousTranscript is held as the
\* words that join(' ') puts together.
Truthy(words) == words # <<>> /\ words # <<"">>

\* A test that takes every string for non-empty.
HasPrevious_Always(context) == TRUE

\* if (context.previousTranscript)
HasPrevious(context) == Truthy(context.previousTranscript)

\* `\nCONTEXT FROM PREVIOUS SEGMENT:\n${context.previousTranscript}\n\n`
PreviousSection(context) ==
  << <<>>, PreviousHeader, context.previousTranscript, <<>>, <<>> >>

\* context.speakerDescriptions.get(id), "" standing for undefined as well:
\* both are falsy.
DescriptionOf(context, id) ==
  IF \E k \in 1..Len(context.speakerDescriptions) :
       context.speakerDescriptions[k].id = id
    THEN LET k == CHOOSE k \in 1..Len(context.speakerDescriptions) :
                    context.speakerDescriptions[k].id = id
         IN  context.speakerDescriptions[k].desc
    ELSE ""

\* `- ${name}${desc ? `: ${desc}` : ''}`
SpeakerEntry(context, entry) ==
  LET desc == DescriptionOf(context, entry.id)
  IN  IF desc # "" THEN <<"-", entry.name, ":", desc>> ELSE <<"-", entry.name>>

\* The header, one line per entry of context.speakers, an empty line, the
\* footer, an empty line and a line break.
SpeakersSection(context) ==
  <<SpeakersHeader>>
    \o [k \in 1..Len(context.speakers) |-> SpeakerEntry(context, context.speakers[k])]
    \o << <<>>, SpeakersFooter, <<>>, <<>> >>

buildContextualPrompt(context) ==
  LET p1 == IF HasPrevious(context)
              THEN Cat(Instructions, PreviousSection(context)) ELSE Instructions
      p2 == IF Len(context.speakers) > 0
              THEN Cat(p1, SpeakersSection(context)) ELSE p1
  IN  Cat(p2, <<Closing>>)

\* ------------------------------------------------------------ fingerprint
\* Strings that are hashed are sequences of characters.
\* A basename that is the whole path.
Basename_FullPath(chars) == chars

\* path.basename: what follows the last '/'.
RECURSIVE Basename(_)
Basename(chars) ==
  IF \E k \in 1..Len(chars) : chars[k] = "/" THEN Basename(Tail(chars)) ELSE chars

\* The decimal digits of a number, as template literals render it.
RECURSIVE Decimal(_)
Decimal(n) ==
  IF n < 0 THEN <<"-">> \o Decimal(0 - n)
  ELSE IF n < 10 THEN <<ToString(n)>>
  ELSE Decimal(n \div 10) \o <<ToString(n % 10)>>

\* `${path.basename(filePath)}-${stats.size}-${stats.mtime.getTime()}`
HashInput(file) ==
  Basename(file.path) \o <<"-">> \o Decimal(file.size) \o <<"-">> \o Decimal(file.mtime)

\* The md5 digest in hex, taken as a free constructor: two digests are equal
\* exactly when the hashed strings are.
Md5Hex(chars) == [md5 |-> chars]

calculateFileHash(file) == Md5Hex(HashInput(file))

\* ------------------------------------------------------------------ cache
\* JSON.stringify(metadata, null, 2) followed by JSON.parse: every field is a
\* string, number, boolean, array or plain object except speakers, a Set.
RoundTripTranscript(t) == [t EXCEPT !.speakers = JsPlainObject]

RoundTrip(metadata) ==
  [metadata EXCEPT !.transcripts =
     [j \in DOMAIN metadata.transcripts |->
        RoundTripTranscript(metadata.transcripts[j])]]

Absent == [kind |-> "absent"]
\* A metadata.json cut short: a proper prefix of a JSON object is no JSON.
Garbage == [kind |-> "garbage"]
Written(metadata) == [kind |-> "json", rec |-> RoundTrip(metadata)]

isCacheValid(d) == d.kind # "absent"

NoMetadata == [kind |-> "none"]

\* --------------------------------------------------------------- planning
Max(a, b) == IF a >= b THEN a ELSE b
Min(a, b) == IF a <= b THEN a ELSE b

\* The plan without the clamp of endTime to the duration.
PlanChunk_NoClamp(duration, currentTime, chunkIndex) ==
  LET startTime == Max(0, currentTime - (IF chunkIndex > 0 THEN overlapDuration ELSE 0))
      endTime == currentTime + chunkDuration
  IN  [index |-> chunkIndex,
       startTime |-> startTime,
       endTime |-> endTime,
       duration |-> endTime - startTime,
       hasOverlap |-> chunkIndex > 0]

\* The plan with no chunk reaching back into its predecessor.
PlanChunk_NoOverlap(duration, currentTime, chunkIndex) ==
  LET startTime == Max(0, currentTime)
      endTime == Min(duration, currentTime + chunkDuration)
  IN  [index |-> chunkIndex,
       startTime |-> startTime,
       endTime |-> endTime,
       duration |-> endTime - startTime,
       hasOverlap |-> chunkIndex > 0]

\* The plan with windows that are shorter by the overlap.
PlanChunk_ShortWindow(duration, currentTime, chunkIndex) ==
  LET startTime == Max(0, currentTime - (IF chunkIndex > 0 THEN overlapDuration ELSE 0))
      endTime == Min(duration, currentTime + chunkDuration - overlapDuration)
  IN  [index |-> chunkIndex,
       startTime |-> startTime,
       endTime |-> endTime,
       duration |-> endTime - startTime,
       hasOverlap |-> chunkIndex > 0]

PlanChunk(duration, currentTime, chunkIndex) ==
  LET startTime == Max(0, currentTime - (IF chunkIndex > 0 THEN overlapDuration ELSE 0))
      endTime == Min(duration, currentTime + chunkDuration)
  IN  [index |-> chunkIndex,
       startTime |-> startTime,
       endTime |-> endTime,
       duration |-> endTime - startTime,
       hasOverlap |-> chunkIndex > 0]

\* ------------------------------------------------------------------ merge
Separator == << <<>>, <<"---">>, <<>> >>

\* merged.join('\n\n---\n\n'): between two parts lie an empty line, the line
\* --- and an empty line.
\* A join that puts only a line break between two parts.
RECURSIVE JoinParts_NoSeparator(_)
JoinParts_NoSeparator(parts) ==
  IF parts = <<>> THEN EmptyText
  ELSE IF Len(parts) = 1 THEN parts[1]
  ELSE parts[1] \o JoinParts_NoSeparator(Tail(parts))

RECURSIVE JoinParts(_)
JoinParts(parts) ==
  IF parts = <<>> THEN EmptyText
  ELSE IF Len(parts) = 1 THEN parts[1]
  ELSE parts[1] \o Separator \o JoinParts(Tail(parts))

\* A merge that keeps the whole transcript of every chunk.
MergePart_AlwaysFull(transcripts, k) == transcripts[k].transcript

MergePart(transcripts, k) ==
  IF k = 1 THEN transcripts[k].transcript ELSE transcripts[k].mainContent

mergeOverlaps(transcripts) ==
  JoinParts([k \in 1..Len(transcripts) |-> MergePart(transcripts, k)])

\* ------------------------------------------------------------------ state
VARIABLES
  pc,           \* where the invocation stands
  run,          \* invocations started so far
  disk,         \* metadata.json at the fingerprint's path
  exported,     \* chunk files present in the cache directory
  metadata,     \* transcribe's metadata
  duration,     \* createChunks' duration
  currentTime,  \* createChunks' currentTime
  planned,      \* createChunks' chunks
  pos,          \* chunks already handled by the loop of transcribe
  transcripts,  \* transcribe's transcripts
  context,      \* transcribe's context
  merged,       \* mergedTranscript, once mergeOverlaps has returned
  output,       \* the document written to outputPath
  error,        \* what the invocation threw
  calls,        \* this invocation's external calls, in order
  live,         \* the transcript each transcribeChunk call returned, by chunk
  saved,        \* the chunks whose save (writeFileSync) has returned
  resumedAfter, \* the chunk whose failed call ended the previous invocation, or -1
  audioDuration, \* the duration of the source file, as ffprobe reports it
  arg,          \* the arguments of a method called on its own
  res           \* what that method returned

vars == <<pc, run, disk, exported, metadata, duration, currentTime, planned, pos,
          transcripts, context, merged, output, error, calls, live, saved,
          resumedAfter, audioDuration, arg, res>>

NoText == <<>>

Ended == pc \in {"idle", "done", "failed", "crashed"}

InitState ==
  /\ pc = "idle"
  /\ run = 0
  /\ disk = Absent
  /\ exported = {}
  /\ metadata = NoMetadata
  /\ duration = 0
  /\ currentTime = 0
  /\ planned = <<>>
  /\ pos = 0
  /\ transcripts = <<>>
  /\ context = EmptyContext
  /\ merged = NoText
  /\ output = NoText
  /\ error = "none"
  /\ calls = <<>>
  /\ live = <<>>
  /\ saved = {}
  /\ resumedAfter = -1

\* No method has been called on its own.
NoCall == [fn |-> "none"]

Init == InitState /\ audioDuration \in Durations /\ arg = NoCall /\ res = NoCall

Call(op, index) == [op |-> op, index |-> index]

\* transcribeChunk(chunk, context) sends the engine the chunk's audio and
\* buildContextualPrompt(context).
TranscribeCall(index, ctx) ==
  [op |-> "transcribe", index |-> index, prompt |-> buildContextualPrompt(ctx)]

\* The in-memory state of an invocation that has not started the loop.
FreshLocals ==
  /\ metadata' = NoMetadata
  /\ duration' = 0
  /\ currentTime' = 0
  /\ planned' = <<>>
  /\ pos' = 0
  /\ transcripts' = <<>>
  /\ context' = EmptyContext
  /\ merged' = NoText
  /\ output' = NoText
  /\ calls' = <<>>

Throw(e) == pc' = "failed" /\ error' = e

\* transcribe is invoked and the audio file exists: the fingerprint is computed.
Start ==
  /\ Ended /\ run < MaxRuns
  /\ run' = run + 1
  /\ resumedAfter' = IF pc = "failed" /\ error = "TranscriptionFailed" THEN pos ELSE -1
  /\ pc' = "check" /\ error' = "none"
  /\ FreshLocals
  /\ UNCHANGED <<disk, exported, live, saved, audioDuration, arg, res>>

\* An existence check that also removes what the cache holds for the file.
StartMissing_ClearsCache ==
  /\ Ended /\ run < MaxRuns
  /\ run' = run + 1
  /\ resumedAfter' = -1
  /\ Throw("SourceNotFound")
  /\ FreshLocals
  /\ disk' = Absent
  /\ UNCHANGED <<exported, live, saved, audioDuration, arg, res>>

\* transcribe is invoked and fs.existsSync(audioPath) is false.
StartMissing ==
  /\ Ended /\ run < MaxRuns
  /\ run' = run + 1
  /\ resumedAfter' = -1
  /\ Throw("SourceNotFound")
  /\ FreshLocals
  /\ UNCHANGED <<disk, exported, live, saved, audioDuration, arg, res>>

\* isCacheValid and loadCacheMetadata: the record parses.
LoadCacheOk ==
  /\ pc = "check" /\ isCacheValid(disk) /\ disk.kind = "json"
  /\ metadata' = disk.rec
  /\ pc' = "loop"
  /\ UNCHANGED <<run, disk, exported, duration, currentTime, planned, pos, transcripts,
                 context, merged, output, error, calls, live, saved, resumedAfter,
                 audioDuration, arg, res>>

\* An unparsable record taken for no record: it is discarded and planning
\* starts over.
LoadCacheCorrupt_Regenerate ==
  /\ pc = "check" /\ isCacheValid(disk) /\ disk.kind = "garbage"
  /\ disk' = Absent
  /\ UNCHANGED <<pc, run, exported, metadata, duration, currentTime, planned, pos,
                 transcripts, context, merged, output, error, calls, live, saved,
                 resumedAfter, audioDuration, arg, res>>

\* isCacheValid and loadCacheMetadata: JSON.parse throws a SyntaxError.
LoadCacheCorrupt ==
  /\ pc = "check" /\ isCacheValid(disk) /\ disk.kind = "garbage"
  /\ Throw("SyntaxError")
  /\ UNCHANGED <<run, disk, exported, metadata, duration, currentTime, planned, pos,
                 transcripts, context, merged, output, calls, live, saved, resumedAfter,
                 audioDuration, arg, res>>

\* A planning that does not ask whether a record exists.
BeginPlan_IgnoreCache ==
  /\ pc = "check"
  /\ calls' = calls \o <<Call("probe", 0), Call("probe", 0)>>
  /\ duration' = audioDuration
  /\ currentTime' = 0
  /\ planned' = <<>>
  /\ pc' = "plan"
  /\ UNCHANGED <<run, disk, exported, metadata, pos, transcripts, context, merged, output,
                 error, live, saved, resumedAfter, audioDuration, arg, res>>

\* No cache: getAudioDuration in transcribe, then setupCacheDir and
\* getAudioDuration in createChunks.
BeginPlan ==
  /\ pc = "check" /\ ~isCacheValid(disk)
  /\ calls' = calls \o <<Call("probe", 0), Call("probe", 0)>>
  /\ duration' = audioDuration
  /\ currentTime' = 0
  /\ planned' = <<>>
  /\ pc' = "plan"
  /\ UNCHANGED <<run, disk, exported, metadata, pos, transcripts, context, merged, output,
                 error, live, saved, resumedAfter, audioDuration, arg, res>>

\* A probe whose failure surfaces only after a record without chunks was saved.
ProbeFail_AfterSave(n) ==
  /\ pc = "check" /\ ~isCacheValid(disk)
  /\ calls' = calls \o [k \in 1..n |-> Call("probe", 0)]
  /\ disk' = Written([sourceFile |-> "audio", fileHash |-> "hash", duration |-> 0,
                      chunkDuration |-> chunkDuration, overlapDuration |-> overlapDuration,
                      chunks |-> <<>>, createdAt |-> run, transcripts |-> <<>>])
  /\ Throw("DurationProbeFailed")
  /\ UNCHANGED <<run, exported, metadata, duration, currentTime, planned, pos,
                 transcripts, context, merged, output, live, saved, resumedAfter,
                 audioDuration, arg, res>>

\* No cache: the first (n = 1) or the second (n = 2) ffprobe call fails.
ProbeFail(n) ==
  /\ pc = "check" /\ ~isCacheValid(disk)
  /\ calls' = calls \o [k \in 1..n |-> Call("probe", 0)]
  /\ Throw("DurationProbeFailed")
  /\ UNCHANGED <<run, disk, exported, metadata, duration, currentTime, planned, pos,
                 transcripts, context, merged, output, live, saved, resumedAfter,
                 audioDuration, arg, res>>

\* No cache, and the source is still being written: transcribe's probe answers
\* audioDuration, which goes into the record, and createChunks' own probe, run
\* after it, answers the length the file has by then, which the plan follows.
BeginPlanGrowing(growth) ==
  /\ pc = "check" /\ ~isCacheValid(disk)
  /\ calls' = calls \o <<Call("probe", 0), Call("probe", 0)>>
  /\ duration' = audioDuration + growth
  /\ currentTime' = 0
  /\ planned' = <<>>
  /\ pc' = "plan"
  /\ UNCHANGED <<run, disk, exported, metadata, pos, transcripts, context, merged, output,
                 error, live, saved, resumedAfter, audioDuration, arg, res>>

\* A loop that moves on by the chunk's own length, overlap taken off.
ExportOk_StrideLessOverlap ==
  /\ pc = "plan" /\ currentTime < duration
  /\ LET chunk == PlanChunk(duration, currentTime, Len(planned))
     IN  /\ planned' = Append(planned, chunk)
         /\ exported' = exported \cup {chunk.index}
         /\ calls' = Append(calls, Call("export", chunk.index))
  /\ currentTime' = currentTime + chunkDuration - overlapDuration
  /\ UNCHANGED <<pc, run, disk, metadata, duration, pos, transcripts, context, merged,
                 output, error, live, saved, resumedAfter, audioDuration, arg, res>>

\* One turn of the while loop of createChunks: ffmpeg exports the chunk.
ExportOk ==
  /\ pc = "plan" /\ currentTime < duration
  /\ LET chunk == PlanChunk(duration, currentTime, Len(planned))
     IN  /\ planned' = Append(planned, chunk)
         /\ exported' = exported \cup {chunk.index}
         /\ calls' = Append(calls, Call("export", chunk.index))
  /\ currentTime' = currentTime + chunkDuration
  /\ UNCHANGED <<pc, run, disk, metadata, duration, pos, transcripts, context, merged,
                 output, error, live, saved, resumedAfter, audioDuration, arg, res>>

\* An export whose failure is swallowed: the chunk is listed without its file.
ExportFail_Continue ==
  /\ pc = "plan" /\ currentTime < duration
  /\ planned' = Append(planned, PlanChunk(duration, currentTime, Len(planned)))
  /\ calls' = Append(calls, Call("export", Len(planned)))
  /\ currentTime' = currentTime + chunkDuration
  /\ UNCHANGED <<pc, run, disk, exported, metadata, duration, pos, transcripts, context,
                 merged, output, error, live, saved, resumedAfter, audioDuration, arg, res>>

\* One turn of the while loop of createChunks: ffmpeg fails.
ExportFail ==
  /\ pc = "plan" /\ currentTime < duration
  /\ calls' = Append(calls, Call("export", Len(planned)))
  /\ Throw("SegmentExportFailed")
  /\ UNCHANGED <<run, disk, exported, metadata, duration, currentTime, planned, pos,
                 transcripts, context, merged, output, live, saved, resumedAfter,
                 audioDuration, arg, res>>

NewMetadata ==
  [sourceFile |-> "audio",
   fileHash |-> "hash",
   duration |-> audioDuration,
   chunkDuration |-> chunkDuration,
   overlapDuration |-> overlapDuration,
   chunks |-> planned,
   createdAt |-> run,
   transcripts |-> <<>>]

\* createChunks returns; transcribe builds the record and saves it.
FinishPlan ==
  /\ pc = "plan" /\ ~(currentTime < duration)
  /\ metadata' = NewMetadata
  /\ disk' = Written(NewMetadata)
  /\ pc' = "loop"
  /\ UNCHANGED <<run, exported, duration, currentTime, planned, pos, transcripts, context,
                 merged, output, error, calls, live, saved, resumedAfter, audioDuration, arg, res>>

\* createChunks returns; the process dies inside the writeFileSync of the new
\* record, which is left cut short.
FinishPlanCrashInSave ==
  /\ pc = "plan" /\ ~(currentTime < duration)
  /\ metadata' = NewMetadata
  /\ disk' = Garbage
  /\ pc' = "crashed"
  /\ UNCHANGED <<run, exported, duration, currentTime, planned, pos, transcripts, context,
                 merged, output, error, calls, live, saved, resumedAfter, audioDuration, arg, res>>

Chunks == metadata.chunks

HasCached == pos \in DOMAIN metadata.transcripts

InLoop == pc = "loop" /\ pos < Len(Chunks)

\* The cached branch of the loop.
UseCached ==
  /\ InLoop /\ HasCached
  /\ LET cached == metadata.transcripts[pos]
     IN  /\ transcripts' = Append(transcripts, cached)
         /\ IF UpdateContextThrows(cached)
              THEN Throw("TypeError") /\ UNCHANGED <<context, pos>>
              ELSE /\ context' = UpdateContext(context, cached)
                   /\ pos' = pos + 1
                   /\ UNCHANGED <<pc, error>>
  /\ UNCHANGED <<run, disk, exported, metadata, duration, currentTime, planned, merged,
                 output, calls, live, saved, resumedAfter, audioDuration, arg, res>>

\* A map keyed by the chunk's number (chunk-001, ...) instead of its index.
WithTranscript_KeyedByNumber(m, t) ==
  [m EXCEPT !.transcripts = ((t.chunkIndex + 1) :> t) @@ m.transcripts]

\* A record that keeps only the entry last stored.
WithTranscript_DropOthers(m, t) ==
  [m EXCEPT !.transcripts = (t.chunkIndex :> t)]

WithTranscript(m, t) ==
  [m EXCEPT !.transcripts = (t.chunkIndex :> t) @@ m.transcripts]

\* The live branch of the loop: the engine answers raw, the record is saved.
TranscribeOk(raw) ==
  /\ InLoop /\ ~HasCached
  /\ LET t == ParseTranscript(Chunks[pos + 1], raw)
     IN  /\ calls' = Append(calls, TranscribeCall(pos, context))
         /\ transcripts' = Append(transcripts, t)
         /\ metadata' = WithTranscript(metadata, t)
         /\ disk' = Written(WithTranscript(metadata, t))
         /\ live' = (pos :> t) @@ live
         /\ saved' = saved \cup {pos}
         /\ context' = UpdateContext(context, t)
  /\ pos' = pos + 1
  /\ UNCHANGED <<pc, run, exported, duration, currentTime, planned, merged, output, error,
                 resumedAfter, audioDuration, arg, res>>

\* A catch that reports the failure and goes on with the next chunk.
TranscribeFail_SkipAhead ==
  /\ InLoop /\ ~HasCached
  /\ calls' = Append(calls, TranscribeCall(pos, context))
  /\ error' = "TranscriptionFailed"
  /\ pos' = pos + 1
  /\ UNCHANGED <<pc, run, disk, exported, metadata, duration, currentTime, planned,
                 transcripts, context, merged, output, live, saved, resumedAfter,
                 audioDuration, arg, res>>

\* A catch that leaves the chunk to be tried again.
TranscribeFail_Retry ==
  /\ InLoop /\ ~HasCached
  /\ calls' = Append(calls, TranscribeCall(pos, context))
  /\ UNCHANGED <<pc, run, disk, exported, metadata, duration, currentTime, planned, pos,
                 transcripts, context, merged, output, error, live, saved, resumedAfter,
                 audioDuration, arg, res>>

\* The live branch of the loop: generateContent rejects; the catch rethrows.
TranscribeFail ==
  /\ InLoop /\ ~HasCached
  /\ calls' = Append(calls, TranscribeCall(pos, context))
  /\ Throw("TranscriptionFailed")
  /\ UNCHANGED <<run, disk, exported, metadata, duration, currentTime, planned, pos,
                 transcripts, context, merged, output, live, saved, resumedAfter,
                 audioDuration, arg, res>>

\* The live branch of the loop: the process dies inside writeFileSync, which
\* has truncated metadata.json and not yet written all of the new text.
TranscribeCrashInSave(raw) ==
  /\ InLoop /\ ~HasCached
  /\ LET t == ParseTranscript(Chunks[pos + 1], raw)
     IN  /\ calls' = Append(calls, TranscribeCall(pos, context))
         /\ transcripts' = Append(transcripts, t)
         /\ metadata' = WithTranscript(metadata, t)
         /\ live' = (pos :> t) @@ live
  /\ disk' = Garbage
  /\ pc' = "crashed"
  /\ UNCHANGED <<run, exported, duration, currentTime, planned, pos, context, merged,
                 output, error, saved, resumedAfter, audioDuration, arg, res>>

\* The process dies between two steps.
Crash ==
  /\ ~Ended
  /\ pc' = "crashed"
  /\ UNCHANGED <<run, disk, exported, metadata, duration, currentTime, planned, pos,
                 transcripts, context, merged, output, error, calls, live, saved,
                 resumedAfter, audioDuration, arg, res>>

\* The loop is over: mergeOverlaps.
Merge ==
  /\ pc = "loop" /\ pos = Len(Chunks)
  /\ merged' = mergeOverlaps(transcripts)
  /\ calls' = Append(calls, Call("merge", 0))
  /\ pc' = "polish"
  /\ UNCHANGED <<run, disk, exported, metadata, duration, currentTime, planned, pos,
                 transcripts, context, output, error, live, saved, resumedAfter,
                 audioDuration, arg, res>>

\* A polish without the fallback to the merged document.
PolishOk_NoFallback(result) ==
  /\ pc = "polish"
  /\ calls' = Append(calls, Call("polish", 0))
  /\ output' = result
  /\ pc' = "done"
  /\ UNCHANGED <<run, disk, exported, metadata, duration, currentTime, planned, pos,
                 transcripts, context, merged, error, live, saved, resumedAfter,
                 audioDuration, arg, res>>

\* polishTranscript: result.text || rawTranscript, then the output is written.
PolishOk(result) ==
  /\ pc = "polish"
  /\ calls' = Append(calls, Call("polish", 0))
  /\ output' = IF result = EmptyText THEN merged ELSE result
  /\ pc' = "done"
  /\ UNCHANGED <<run, disk, exported, metadata, duration, currentTime, planned, pos,
                 transcripts, context, merged, error, live, saved, resumedAfter,
                 audioDuration, arg, res>>

\* polishTranscript: generateContent rejects.
PolishFail ==
  /\ pc = "polish"
  /\ calls' = Append(calls, Call("polish", 0))
  /\ Throw("PolishFailed")
  /\ UNCHANGED <<run, disk, exported, metadata, duration, currentTime, planned, pos,
                 transcripts, context, merged, output, live, saved, resumedAfter,
                 audioDuration, arg, res>>

Next ==
  \/ Start
  \/ StartMissing
  \/ LoadCacheOk
  \/ LoadCacheCorrupt
  \/ BeginPlan
  \/ \E n \in 1..2 : ProbeFail(n)
  \/ ExportOk
  \/ ExportFail
  \/ FinishPlan
  \/ FinishPlanCrashInSave
  \/ UseCached
  \/ \E raw \in RawTexts : TranscribeOk(raw)
  \/ TranscribeFail
  \/ \E raw \in RawTexts : TranscribeCrashInSave(raw)
  \/ Crash
  \/ Merge
  \/ \E result \in PolishTexts : PolishOk(result)
  \/ PolishFail

Spec == Init /\ [][Next]_vars

\* The planning model: createChunks for every probed duration.
InitPlan ==
  /\ InitState
  /\ audioDuration \in PlanDurations
  /\ arg = NoCall /\ res = NoCall

NextPlan ==
  \/ Start
  \/ BeginPlan
  \/ ExportOk
  \/ FinishPlan

SpecPlan == InitPlan /\ [][NextPlan]_vars

\* The planning model with its steps taken as long as one is possible: every
\* await of the planning resolves.
SpecPlanFair == SpecPlan /\ WF_vars(NextPlan)

\* The planning model with the two probes answering on their own: the second
\* one sees the file as long as it is when createChunks runs.
NextProbes ==
  \/ Start
  \/ \E growth \in 0..MaxGrowth : BeginPlanGrowing(growth)
  \/ ExportOk
  \/ FinishPlan

SpecProbes == InitPlan /\ [][NextProbes]_vars

\* ------------------------------------------------------- two invocations
\* A second invocation of transcribe on the same source, running in another
\* process against the same cache directory.  Its own locals (where it is,
\* its in-memory record, its loop index) are kept in arg; the first
\* invocation is the one of the variables above.  Each step runs from one
\* await to the next; nothing in the code locks metadata.json.
OtherIdle == [fn |-> "transcribe", pc |-> "idle", metadata |-> NoMetadata, pos |-> 0]

\* The chunk list createChunks returns for a duration.
RECURSIVE PlanFrom(_, _, _)
PlanFrom(d, t, chunks) ==
  IF t < d
    THEN PlanFrom(d, t + chunkDuration, Append(chunks, PlanChunk(d, t, Len(chunks))))
    ELSE chunks

createChunks(d) == PlanFrom(d, 0, <<>>)

\* The cache check finds a record and loads it.
OtherLoadCache ==
  /\ arg.pc = "idle" /\ isCacheValid(disk) /\ disk.kind = "json"
  /\ arg' = [arg EXCEPT !.pc = "loop", !.metadata = disk.rec]
  /\ UNCHANGED <<pc, run, disk, exported, metadata, duration, currentTime, planned, pos,
                 transcripts, context, merged, output, error, calls, live, saved,
                 resumedAfter, audioDuration, res>>

\* The cache check finds no record: the probes and the exports begin.
OtherBeginPlan ==
  /\ arg.pc = "idle" /\ ~isCacheValid(disk)
  /\ arg' = [arg EXCEPT !.pc = "plan"]
  /\ UNCHANGED <<pc, run, disk, exported, metadata, duration, currentTime, planned, pos,
                 transcripts, context, merged, output, error, calls, live, saved,
                 resumedAfter, audioDuration, res>>

\* createChunks returns: the new record, without transcripts, is saved.
OtherFinishPlan ==
  /\ arg.pc = "plan"
  /\ LET fresh == [NewMetadata EXCEPT !.chunks = createChunks(audioDuration)]
     IN  /\ arg' = [arg EXCEPT !.pc = "loop", !.metadata = fresh]
         /\ disk' = Written(fresh)
         /\ exported' = exported \cup { fresh.chunks[k].index : k \in 1..Len(fresh.chunks) }
  /\ UNCHANGED <<pc, run, metadata, duration, currentTime, planned, pos, transcripts,
                 context, merged, output, error, calls, live, saved, resumedAfter,
                 audioDuration, res>>

OtherInLoop == arg.pc = "loop" /\ arg.pos < Len(arg.metadata.chunks)

OtherHasCached == arg.pos \in DOMAIN arg.metadata.transcripts

\* The cached branch of the loop in the second invocation.
OtherUseCached ==
  /\ OtherInLoop /\ OtherHasCached
  /\ arg' = IF UpdateContextThrows(arg.metadata.transcripts[arg.pos])
              THEN [arg EXCEPT !.pc = "failed"]
              ELSE [arg EXCEPT !.pos = arg.pos + 1]
  /\ UNCHANGED <<pc, run, disk, exported, metadata, duration, currentTime, planned, pos,
                 transcripts, context, merged, output, error, calls, live, saved,
                 resumedAfter, audioDuration, res>>

\* The live branch of the loop in the second invocation: its own in-memory
\* record, with the new entry, replaces metadata.json.
OtherTranscribeOk(raw) ==
  /\ OtherInLoop /\ ~OtherHasCached
  /\ LET t == ParseTranscript(arg.metadata.chunks[arg.pos + 1], raw)
         m == WithTranscript(arg.metadata, t)
     IN  /\ arg' = [arg EXCEPT !.metadata = m, !.pos = arg.pos + 1]
         /\ disk' = Written(m)
  /\ UNCHANGED <<pc, run, exported, metadata, duration, currentTime, planned, pos,
                 transcripts, context, merged, output, error, calls, live, saved,
                 resumedAfter, audioDuration, res>>

\* The second invocation's loop is over; it goes on to merge and polish,
\* which leave the record alone.
OtherFinish ==
  /\ arg.pc = "loop" /\ arg.pos = Len(arg.metadata.chunks)
  /\ arg' = [arg EXCEPT !.pc = "done"]
  /\ UNCHANGED <<pc, run, disk, exported, metadata, duration, currentTime, planned, pos,
                 transcripts, context, merged, output, error, calls, live, saved,
                 resumedAfter, audioDuration, res>>

InitConcurrent == InitState /\ audioDuration \in Durations /\ arg = OtherIdle /\ res = NoCall

NextConcurrent ==
  \/ Start
  \/ LoadCacheOk
  \/ BeginPlan
  \/ ExportOk
  \/ FinishPlan
  \/ UseCached
  \/ \E raw \in RawTexts : TranscribeOk(raw)
  \/ Merge
  \/ \E result \in PolishTexts : PolishOk(result)
  \/ OtherLoadCache
  \/ OtherBeginPlan
  \/ OtherFinishPlan
  \/ OtherUseCached
  \/ \E raw \in RawTexts : OtherTranscribeOk(raw)
  \/ OtherFinish

SpecConcurrent == InitConcurrent /\ [][NextConcurrent]_vars

\* ------------------------------------------------- methods on their own
\* The public methods are also called directly (as the tests do).  Such a call
\* is one step: from the arguments in arg to the returned value in res.
Returned(fn, value) ==
  /\ res' = [fn |-> fn, value |-> value]
  /\ pc' = "returned"
  /\ UNCHANGED <<run, disk, exported, metadata, duration, currentTime, planned, pos,
                 transcripts, context, merged, output, error, calls, live, saved,
                 resumedAfter, audioDuration, arg>>

\* An answer of n lines, each line its own number; the first line may be blank.
NumberedText(n, blankFirst) ==
  [i \in 1..n |-> IF blankFirst /\ i = 1 THEN <<>> ELSE <<ToString(i)>>]

\* Answers with a bold label inside a line, after other words.
LabelTexts ==
  { << <<"**A:**", "hi", "**B:**", "yo">> >>,
    << <<"hi">>, <<"**B:**", "yo">>, <<"so", "**A:**", "said">> >>,
    << <<"hi", "yo">> >> }

ParseTexts ==
  RawTexts \cup LabelTexts
    \cup { NumberedText(n, b) : n \in 1..MaxLines, b \in BOOLEAN }

\* The first chunk and a later chunk of a plan.
ParseChunks == { PlanChunk(1500, 0, 0), PlanChunk(1500, chunkDuration, 1) }

InitParse ==
  /\ InitState
  /\ audioDuration = 0
  /\ arg \in [fn : {"transcribeChunk"}, chunk : ParseChunks, raw : ParseTexts]
  /\ res = NoCall

\* transcribeChunk(chunk, context) once the engine has answered arg.raw.
CallTranscribeChunk ==
  /\ pc = "idle" /\ arg.fn = "transcribeChunk"
  /\ Returned("transcribeChunk", ParseTranscript(arg.chunk, arg.raw))

NextParse == CallTranscribeChunk

SpecParse == InitParse /\ [][NextParse]_vars

\* The transcripts given to mergeOverlaps called on its own: the three fields
\* differ, one transcript holds a section break of its own, one is empty.
MergeTranscript(i, full, main, overlap) ==
  [chunkIndex |-> i, transcript |-> full, speakers |-> JsSet(<<>>),
   mainContent |-> main, overlapContent |-> overlap]

SectionBreakText == << <<"a">>, <<>>, <<"---">>, <<>>, <<"b">> >>

MergeTranscripts ==
  { MergeTranscript(0, << <<"full0">>, <<"more0">> >>, << <<"main0">> >>, << <<"over0">> >>),
    MergeTranscript(1, << <<"full1">> >>, << <<"main1">> >>, << <<"over1">> >>),
    MergeTranscript(2, SectionBreakText, SectionBreakText, EmptyText),
    MergeTranscript(3, EmptyText, EmptyText, EmptyText) }

MergeLists ==
  UNION { [1..n -> MergeTranscripts] : n \in 0..MaxMergeLen }

InitMerge ==
  /\ InitState
  /\ audioDuration = 0
  /\ arg \in [fn : {"mergeOverlaps"}, transcripts : MergeLists]
  /\ res = NoCall

\* mergeOverlaps(transcripts)
CallMergeOverlaps ==
  /\ pc = "idle" /\ arg.fn = "mergeOverlaps"
  /\ Returned("mergeOverlaps", mergeOverlaps(arg.transcripts))

NextMerge == CallMergeOverlaps

SpecMerge == InitMerge /\ [][NextMerge]_vars

\* The files given to calculateFileHash called on its own: names that hold
\* the separator and digits, sizes and times of one and two digits, a time
\* before 1970.
FileDirs == { <<"/", "a">>, <<"/", "b", "/", "c">> }
FileNames == { <<"x">>, <<"x", "1">>, <<"x", "-", "1">> }
FileStats == {0, 1, MaxStat}

Files ==
  { [path |-> d \o <<"/">> \o b, size |-> sz, mtime |-> mt, content |-> c] :
      d \in FileDirs, b \in FileNames, sz \in FileStats,
      mt \in FileStats \cup {-1}, c \in {"c1", "c2"} }

InitHash ==
  /\ InitState
  /\ audioDuration = 0
  /\ arg \in [fn : {"calculateFileHash"}, file : Files]
  /\ res = NoCall

\* calculateFileHash(filePath), statSync answering the file's size and mtime.
CallCalculateFileHash ==
  /\ pc = "idle" /\ arg.fn = "calculateFileHash"
  /\ Returned("calculateFileHash", calculateFileHash(arg.file))

NextHash == CallCalculateFileHash

SpecHash == InitHash /\ [][NextHash]_vars

\* The contexts and transcripts given to updateContext called on its own:
\* texts of no, a few and about ContextWords words, on one line or two, with
\* and without a line break at the start and at the end.
NumberedWords(from, to) == [i \in 1..(to - from + 1) |-> ToString(from + i - 1)]

WordCounts == (0..2) \cup ((ContextWords - 2)..MaxWords)

WordsText(n, lead, trail, split) ==
  (IF lead THEN << <<>> >> ELSE <<>>)
    \o (IF split /\ n >= 2
          THEN <<NumberedWords(1, n \div 2), NumberedWords(n \div 2 + 1, n)>>
          ELSE <<NumberedWords(1, n)>>)
    \o (IF trail THEN << <<>> >> ELSE <<>>)

ContextTexts ==
  { WordsText(n, lead, trail, split) :
      n \in WordCounts, lead \in BOOLEAN, trail \in BOOLEAN, split \in BOOLEAN }

PriorContexts ==
  { EmptyContext,
    [previousTranscript |-> <<"old", "words">>,
     speakers |-> <<[id |-> "A", name |-> "Alice"]>>,
     speakerDescriptions |-> << [id |-> "A", desc |-> "host"] >>] }

ContextTranscripts ==
  { [chunkIndex |-> 0, transcript |-> text, speakers |-> JsSet(names),
     mainContent |-> EmptyText, overlapContent |-> EmptyText] :
      text \in ContextTexts, names \in {<<>>, <<"B", "A">>} }

InitContext ==
  /\ InitState
  /\ audioDuration = 0
  /\ arg \in [fn : {"updateContext"}, context : PriorContexts,
               transcript : ContextTranscripts]
  /\ res = NoCall

\* updateContext(context, transcript)
CallUpdateContext ==
  /\ pc = "idle" /\ arg.fn = "updateContext"
  /\ Returned("updateContext", UpdateContext(arg.context, arg.transcript))

NextContext == CallUpdateContext

SpecContext == InitContext /\ [][NextContext]_vars

\* updateContext applied again and again, each time to the context the
\* call before returned: arg keeps the first context and the transcripts
\* given so far, res the context returned last.
RosterSets ==
  { <<>>, <<"A">>, <<"B">>, <<"C">>, <<"B", "A">>, <<"A", "C">> }

RosterTranscripts ==
  { [chunkIndex |-> 0, transcript |-> << <<"hi">> >>, speakers |-> JsSet(names),
     mainContent |-> << <<"hi">> >>, overlapContent |-> EmptyText] :
      names \in RosterSets }

InitRoster ==
  /\ InitState
  /\ audioDuration = 0
  /\ arg \in [fn : {"updateContext"}, context : PriorContexts, transcripts : {<<>>}]
  /\ res = NoCall

\* context = updateContext(context, transcript)
UpdateContextAgain ==
  /\ arg.fn = "updateContext" /\ Len(arg.transcripts) < MaxUpdates
  /\ \E t \in RosterTranscripts :
       /\ arg' = [arg EXCEPT !.transcripts = Append(@, t)]
       /\ res' = [fn |-> "updateContext",
                  value |-> UpdateContext(IF res = NoCall THEN arg.context
                                          ELSE res.value, t)]
  /\ pc' = "returned"
  /\ UNCHANGED <<run, disk, exported, metadata, duration, currentTime, planned, pos,
                 transcripts, context, merged, output, error, calls, live, saved,
                 resumedAfter, audioDuration>>

NextRoster == UpdateContextAgain

SpecRoster == InitRoster /\ [][NextRoster]_vars

\* The contexts given to buildContextualPrompt called on its own: trailing
\* texts that are empty, one space, and words; rosters with and without
\* aliases; descriptions for some, none or other speakers, one of them empty.
PromptPrevious == { <<"">>, <<"", "">>, <<"x">>, <<"a", "b">> }

PromptRosters ==
  { <<>>,
    <<[id |-> "A", name |-> "Alice"]>>,
    <<[id |-> "B", name |-> "B"]>>,
    <<[id |-> "B", name |-> "B"], [id |-> "A", name |-> "Alice"]>> }

PromptDescriptions ==
  { <<>>,
    <<[id |-> "A", desc |-> "host"]>>,
    <<[id |-> "A", desc |-> "host"], [id |-> "B", desc |-> ""]>>,
    <<[id |-> "C", desc |-> "guest"], [id |-> "B", desc |-> "expert"]>> }

PromptContexts ==
  [previousTranscript : PromptPrevious, speakers : PromptRosters,
   speakerDescriptions : PromptDescriptions]

InitPrompt ==
  /\ InitState
  /\ audioDuration = 0
  /\ arg \in [fn : {"buildContextualPrompt"}, context : PromptContexts]
  /\ res = NoCall

\* buildContextualPrompt(context)
CallBuildContextualPrompt ==
  /\ pc = "idle" /\ arg.fn = "buildContextualPrompt"
  /\ Returned("buildContextualPrompt", buildContextualPrompt(arg.context))

NextPrompt == CallBuildContextualPrompt

SpecPrompt == InitPrompt /\ [][NextPrompt]_vars

\* The heaps given to updateContext called on its own: the roster at place 1,
\* the descriptions at place 2, the context object at place 3.
ObjectHeaps ==
  { <<roster, descs,
      [previousTranscript |-> prev, speakers |-> 1, speakerDescriptions |-> 2]>> :
      roster \in PromptRosters, descs \in PromptDescriptions,
      prev \in {<<"">>, <<"old", "words">>} }

ObjectTranscripts ==
  { [chunkIndex |-> 0, transcript |-> text, speakers |-> JsSet(names),
     mainContent |-> text, overlapContent |-> EmptyText] :
      text \in {EmptyText, << <<"hi">>, <<"yo">> >>}, names \in RosterSets }

InitObjects ==
  /\ InitState
  /\ audioDuration = 0
  /\ arg \in [fn : {"updateContext"}, heap : ObjectHeaps, context : {3},
               transcript : ObjectTranscripts]
  /\ res = NoCall

\* updateContext(context, transcript), the caller keeping its reference to
\* the context it passed.
CallUpdateContextObject ==
  /\ pc = "idle" /\ arg.fn = "updateContext"
  /\ LET r == updateContext(arg.heap, arg.context, arg.transcript)
     IN  /\ res' = [fn |-> "updateContext", value |-> r.ref, heap |-> r.heap]
         /\ pc' = "returned"
  /\ UNCHANGED <<run, disk, exported, metadata, duration, currentTime, planned, pos,
                 transcripts, context, merged, output, error, calls, live, saved,
                 resumedAfter, audioDuration, arg>>

NextObjects == CallUpdateContextObject

SpecObjects == InitObjects /\ [][NextObjects]_vars

\* ------------------------------------------------------- coverage model
\* A whole run on a recording of whole slots, with an engine that answers
\* faithfully and in order: one line per slot of the chunk's audio, the line
\* naming the second of the recording at which the slot starts.
SlotStarts(from, to) ==
  { s \in from..(to - 1) : (s - from) % overlapDuration = 0 }

TimedLine(s) == <<ToString(s)>>

TimedText(chunk) ==
  [k \in 1..Cardinality(SlotStarts(chunk.startTime, chunk.endTime)) |->
     TimedLine(chunk.startTime + (k - 1) * overlapDuration)]

CoverageDurations == { overlapDuration * k : k \in 1..MaxSlots }

InitCoverage ==
  /\ InitState
  /\ audioDuration \in CoverageDurations
  /\ arg = NoCall /\ res = NoCall

TranscribeTimed == TranscribeOk(TimedText(Chunks[pos + 1]))

NextCoverage ==
  \/ Start
  \/ BeginPlan
  \/ ExportOk
  \/ FinishPlan
  \/ TranscribeTimed
  \/ Merge

SpecCoverage == InitCoverage /\ [][NextCoverage]_vars

\* ------------------------------------------------------------- formatTime
\* Times are given in tenths of a second: tenths / 10 is the number of seconds.
\* String(n).padStart(2, '0') with no padding at all.
PadStart_None(chars, n, pad) == chars

\* padStart: pad is put in front until the string has n characters.
RECURSIVE PadStart(_, _, _)
PadStart(chars, n, pad) ==
  IF Len(chars) >= n THEN chars ELSE PadStart(<<pad>> \o chars, n, pad)

\* formatTime(seconds), the result as its characters.
formatTime(tenths) ==
  LET mins == tenths \div (60 * 10)
      secs == (tenths % (60 * 10)) \div 10
  IN  Decimal(mins) \o <<":">> \o PadStart(Decimal(secs), 2, "0")

InitFormat ==
  /\ InitState
  /\ audioDuration = 0
  /\ arg \in [fn : {"formatTime"}, tenths : 0..MaxFormatTenths]
  /\ res = NoCall

CallFormatTime ==
  /\ pc = "idle" /\ arg.fn = "formatTime"
  /\ Returned("formatTime", formatTime(arg.tenths))

NextFormat == CallFormatTime

SpecFormat == InitFormat /\ [][NextFormat]_vars

\* ------------------------------------------------------------ properties
\* The chunks this invocation has submitted to the transcription engine.
RECURSIVE TranscribeIndices(_)
TranscribeIndices(cs) ==
  IF cs = <<>> THEN <<>>
  ELSE (IF Head(cs).op = "transcribe" THEN <<Head(cs).index>> ELSE <<>>)
         \o TranscribeIndices(Tail(cs))

HasCall(op) == \E k \in 1..Len(calls) : calls[k].op = op

\* What an invocation throws because an external collaborator failed.
ExternalErrors ==
  {"SourceNotFound", "DurationProbeFailed", "SegmentExportFailed",
   "TranscriptionFailed", "PolishFailed"}

FromTo(a, b) == [k \in 1..(b - a + 1) |-> a + k - 1]

\* C1: an invocation that follows one aborted by the failed transcription of
\* chunk k, and in which no external call fails, submits exactly the chunks
\* k..N-1 in order and reaches merge, polish and output.
C1_ResumesFromFirstIncomplete ==
  resumedAfter >= 0 =>
    /\ pc = "failed" => error \in ExternalErrors
    /\ pc \in {"polish", "done"} =>
         TranscribeIndices(calls) = FromTo(resumedAfter, Len(Chunks) - 1)

\* C2: after a crash in the chunk loop the persisted record is loadable and
\* holds the transcript of every chunk whose save had returned.
C2_CrashLosesAtMostInFlight ==
  (pc = "crashed" /\ saved # {}) =>
    /\ disk.kind = "json"
    /\ \A j \in saved :
         /\ j \in DOMAIN disk.rec.transcripts
         /\ disk.rec.transcripts[j].transcript = live[j].transcript

\* An invocation on a record that held a transcript for every chunk.
FullyCachedRun ==
  /\ pc \in {"loop", "polish", "done", "failed"}
  /\ metadata # NoMetadata
  /\ Len(Chunks) > 0
  /\ DOMAIN metadata.transcripts = 0..(Len(Chunks) - 1)
  /\ TranscribeIndices(calls) = <<>>

\* C3: an invocation on a fully cached session calls the engine for no chunk
\* and merges to the document the record determines, the same in every run.
C3_ResumeIdempotence ==
  FullyCachedRun =>
    /\ pc = "failed" => error \in ExternalErrors
    /\ pc \in {"polish", "done"} =>
         merged = mergeOverlaps([k \in 1..Len(Chunks) |-> metadata.transcripts[k - 1]])

\* updateContext folded over what the live calls returned for chunks 0..n-1.
RECURSIVE FoldLive(_)
FoldLive(n) ==
  IF n = 0 THEN EmptyContext ELSE UpdateContext(FoldLive(n - 1), live[n - 1])

\* C4: the context after chunks 0..pos-1 is updateContext folded over their
\* live transcripts, whether each was transcribed now or read from the cache.
C4_ContextReplayEquivalence ==
  /\ pc \in {"loop", "polish", "done"} /\ metadata # NoMetadata =>
       context = FoldLive(pos)
  /\ error # "TypeError"

\* C5: a chunk whose transcript is in the persisted record is not submitted
\* again: the step that handles it issues no call, feeds the stored
\* transcript to updateContext and leaves the chunk done.
C5_CachedNeverResubmitted ==
  [][(InLoop /\ disk.kind = "json" /\ pos \in DOMAIN disk.rec.transcripts) =>
       /\ calls' = calls
       /\ \/ pc' = "crashed"
          \/ /\ pc' = "loop"
             /\ pos' = pos + 1
             /\ context' = UpdateContext(context, disk.rec.transcripts[pos])]_vars

\* C6: a failed transcription call for chunk k ends the invocation at once:
\* no later chunk is tried, merge and polish do not run, and the persisted
\* record holds exactly the transcripts saved before the failure.
C6_FailureHaltsLoop ==
  error = "TranscriptionFailed" =>
    /\ pc = "failed"
    /\ calls[Len(calls)].op = "transcribe" /\ calls[Len(calls)].index = pos
    /\ \A k \in 1..Len(calls) : calls[k].op = "transcribe" => calls[k].index <= pos
    /\ ~HasCall("merge") /\ ~HasCall("polish")
    /\ merged = NoText /\ output = NoText
    /\ disk.kind = "json"
    /\ DOMAIN disk.rec.transcripts = 0..(pos - 1)
    /\ DOMAIN disk.rec.transcripts = saved
    /\ \A j \in saved : disk.rec.transcripts[j] = RoundTripTranscript(live[j])

C6_Witness ==
  /\ pc = "failed" /\ error = "TranscriptionFailed"
  /\ pos = 1 /\ Len(Chunks) = 3

\* C7: loading after a save returns the saved record, equal in every field.
C7_CacheRoundTrip ==
  (pc = "loop" /\ disk.kind = "json") => disk.rec = metadata

\* C8: an unparsable metadata.json makes transcribe fail at the load: nothing
\* is planned, exported, transcribed or written, and the file stays as it is.
C8_CorruptCacheSurfaced ==
  [][/\ (pc = "check" /\ disk = Garbage) =>
          /\ pc' = "crashed" \/ (pc' = "failed" /\ error' = "SyntaxError")
          /\ calls' = calls /\ metadata' = metadata /\ planned' = planned
          /\ exported' = exported /\ output' = output
     /\ disk = Garbage => disk' = Garbage]_vars

C8_Witness ==
  /\ pc = "failed" /\ error = "SyntaxError"
  /\ disk = Garbage /\ saved # {} /\ calls = <<>>

Covered(t) ==
  \E k \in 1..Len(planned) : planned[k].startTime <= t /\ t < planned[k].endTime

\* C9: for a duration above 0 the planned chunks are ordered by index and
\* start, no chunk starts after the end of its predecessor, chunk 0 starts
\* at 0, the last chunk ends at the duration, and together they cover
\* exactly [0, duration).
C9_PlanningCoverage ==
  (pc = "loop" /\ duration > 0) =>
    /\ Len(planned) >= 1
    /\ planned[1].startTime = 0
    /\ planned[Len(planned)].endTime = duration
    /\ \A k \in 1..Len(planned) :
         /\ planned[k].index = k - 1
         /\ 0 <= planned[k].startTime
         /\ planned[k].startTime < planned[k].endTime
         /\ planned[k].endTime <= duration
    /\ \A k \in 1..(Len(planned) - 1) :
         /\ planned[k].startTime < planned[k + 1].startTime
         /\ planned[k + 1].startTime <= planned[k].endTime
    /\ \A t \in 0..(duration - 1) : Covered(t)

C9_Witness ==
  /\ pc = "loop" /\ Len(planned) = 3
  /\ planned[3].duration < chunkDuration

ExpectedChunk(T, i) ==
  LET s == IF i = 0 THEN 0 ELSE Max(0, i * chunkDuration - overlapDuration)
      e == Min(T, (i + 1) * chunkDuration)
  IN  [index |-> i, startTime |-> s, endTime |-> e, duration |-> e - s,
       hasOverlap |-> i > 0]

TenthUp(n) == CHOOSE c \in 0..n : 10 * c >= n /\ 10 * (c - 1) < n

\* The string whose lines are the given ones; no lines give the empty string.
TextOf(lines) == IF lines = <<>> THEN EmptyText ELSE lines

\* C11: mainContent and overlapContent split the lines of the transcript: the
\* last ceil(totalLines / 10) lines are the overlap of a chunk with
\* hasOverlap, none are for another chunk; 20 lines split into 18 and 2.
C11_OverlapPartition ==
  res.fn = "transcribeChunk" =>
    LET raw == arg.raw
        n == Len(raw)
        k == IF arg.chunk.hasOverlap THEN TenthUp(n) ELSE 0
        t == res.value
    IN  /\ t.transcript = raw
        /\ t.mainContent = TextOf(SubSeq(raw, 1, n - k))
        /\ t.overlapContent = TextOf(SubSeq(raw, n - k + 1, n))
        /\ ~arg.chunk.hasOverlap =>
             t.mainContent = raw /\ t.overlapContent = EmptyText
        /\ (arg.chunk.hasOverlap /\ raw = NumberedText(20, FALSE)) =>
             /\ t.mainContent = NumberedText(18, FALSE)
             /\ t.overlapContent = << <<"19">>, <<"20">> >>

C11_Witness ==
  /\ res.fn = "transcribeChunk"
  /\ arg.chunk.hasOverlap /\ arg.raw = NumberedText(20, FALSE)
  /\ Len(res.value.overlapContent) = 2

\* Element 1's transcript, then for each later element the separator and its
\* mainContent.
RECURSIVE DocUpTo(_, _)
DocUpTo(ts, n) ==
  IF n = 0 THEN EmptyText
  ELSE IF n = 1 THEN ts[1].transcript
  ELSE DocUpTo(ts, n - 1) \o << <<>>, <<"---">>, <<>> >> \o ts[n].mainContent

\* C12: mergeOverlaps returns the first element's transcript followed, for
\* every later element in order, by the separator and that element's
\* mainContent; the empty list gives the empty string.
C12_MergeRule ==
  res.fn = "mergeOverlaps" =>
    /\ res.value = DocUpTo(arg.transcripts, Len(arg.transcripts))
    /\ arg.transcripts = <<>> => res.value = EmptyText

C12_Witness ==
  /\ res.fn = "mergeOverlaps"
  /\ Len(arg.transcripts) = 3
  /\ arg.transcripts[2].mainContent # arg.transcripts[2].transcript
  /\ arg.transcripts[3].mainContent # arg.transcripts[3].transcript

\* The occurrences of '\n\n---\n\n' in a document: a line break, an empty
\* line, the line ---, an empty line and one more line.
SepCount(doc) ==
  Cardinality({ i \in 1..(Len(doc) - 4) :
                  doc[i + 1] = <<>> /\ doc[i + 2] = <<"---">> /\ doc[i + 3] = <<>> })

HasBreakLine(text) == \E i \in 1..Len(text) : text[i] = <<"---">>

\* The texts a list contributes to the merged document hold no line ---.
NoBreakLines(ts) ==
  \A k \in 1..Len(ts) :
    ~HasBreakLine(IF k = 1 THEN ts[k].transcript ELSE ts[k].mainContent)

InText(line, text) == \E i \in 1..Len(text) : text[i] = line

\* C14: in a session of several chunks, every line the merge drops (the
\* overlapContent of a chunk after the first) covers audio that a retained
\* line covers too, and every slot of the recording, the last one included,
\* has a line in the merged document.
C14_NoContentLost ==
  (pc = "polish" /\ Len(Chunks) > 1) =>
    /\ \A k \in 2..Len(transcripts) :
         \A i \in 1..Len(transcripts[k].overlapContent) :
           LET line == transcripts[k].overlapContent[i]
           IN  line # <<>> => InText(line, merged)
    /\ \A s \in SlotStarts(0, audioDuration) : InText(TimedLine(s), merged)

\* C15: a failed export aborts the run with no record on disk; and whenever a
\* record is on disk, the file of every chunk it lists has been exported.
C15_ExportFailureAborts ==
  /\ error = "SegmentExportFailed" => (pc = "failed" /\ disk = Absent)
  /\ disk.kind = "json" =>
       \A i \in 1..Len(disk.rec.chunks) : disk.rec.chunks[i].index \in exported

C15_Witness ==
  /\ error = "SegmentExportFailed"
  /\ Len(planned) >= 1
  /\ disk = Absent

CallCount(c) == Cardinality({ k \in 1..Len(calls) : calls[k] = c })

\* C16: when metadata.json exists the run goes on with the stored record and
\* makes no probe and no export, then or later; when it does not, the run
\* probes, exports each planned chunk exactly once, and saves a new record
\* whose transcripts map is empty.
C16_ReuseIffRecordExists ==
  [][/\ (pc = "check" /\ isCacheValid(disk)) =>
          /\ pc' \in {"loop", "failed", "crashed"}
          /\ calls' = calls /\ exported' = exported /\ disk' = disk
          /\ pc' = "loop" => metadata' = disk.rec
     /\ (pc = "check" /\ ~isCacheValid(disk)) =>
          /\ pc' \in {"plan", "failed", "crashed"}
          /\ pc' = "plan" =>
               (calls' # calls /\ \A k \in 1..Len(calls') : calls'[k].op = "probe")
     /\ (pc \in {"loop", "polish"} /\ Len(calls') >= Len(calls)) =>
          \A k \in (Len(calls) + 1)..Len(calls') : calls'[k].op \notin {"probe", "export"}
     /\ (pc = "plan" /\ pc' = "loop") =>
          /\ disk'.kind = "json"
          /\ disk'.rec.transcripts = <<>>
          /\ disk'.rec.chunks = planned
          /\ disk'.rec.chunkDuration = chunkDuration
          /\ disk'.rec.overlapDuration = overlapDuration
          /\ metadata' = disk'.rec
          /\ \A i \in 1..Len(planned) :
               planned[i].index = i - 1 /\ CallCount(Call("export", i - 1)) = 1
          /\ \A k \in 1..Len(calls) :
               calls[k].op = "export" => calls[k].index < Len(planned)
    ]_vars

C16_Witness ==
  /\ pc = "loop" /\ run >= 2
  /\ calls = <<>>
  /\ metadata # NoMetadata /\ disk.kind = "json" /\ metadata.chunks = disk.rec.chunks
  /\ Len(metadata.chunks) >= 2

IndicesWithin(rec) ==
  \A i \in DOMAIN rec.transcripts : i \in 0..(Len(rec.chunks) - 1)

\* C17: the transcripts map of the record, in memory and on disk, has no entry
\* for an index outside 0 .. (number of chunks - 1).
C17_TranscriptIndicesInRange ==
  /\ metadata # NoMetadata => IndicesWithin(metadata)
  /\ disk.kind = "json" => IndicesWithin(disk.rec)

C17_Witness ==
  /\ disk.kind = "json"
  /\ Len(disk.rec.chunks) >= 2
  /\ DOMAIN disk.rec.transcripts = 0..(Len(disk.rec.chunks) - 1)
  /\ metadata = disk.rec

\* C18: an invocation on a missing audio file fails at once: the cache and the
\* exported files are as they were, no record is loaded, and no probe,
\* export, transcription, merge or polish call is made.
C18_SourceNotFoundFirst ==
  [][error' = "SourceNotFound" =>
       /\ pc' = "failed"
       /\ calls' = <<>>
       /\ disk' = disk /\ exported' = exported
       /\ metadata' = NoMetadata /\ planned' = <<>> /\ transcripts' = <<>>
       /\ output' = NoText
    ]_vars

C18_Witness ==
  /\ error = "SourceNotFound"
  /\ disk.kind = "json" /\ exported # {}
  /\ calls = <<>>

\* C19: a failed duration probe (only made when there is no record) aborts the
\* run before planning: no chunk is planned or exported and no record is saved.
C19_ProbeFailureAborts ==
  error = "DurationProbeFailed" =>
    /\ pc = "failed"
    /\ planned = <<>> /\ currentTime = 0
    /\ \A k \in 1..Len(calls) : calls[k].op = "probe"
    /\ disk = Absent
    /\ metadata = NoMetadata

C19_Witness ==
  /\ error = "DurationProbeFailed"
  /\ Len(calls) = 2
  /\ disk = Absent

\* C20: the final transcript is the engine's polished text when that is not
\* empty and the merged document otherwise, so it is never empty when the
\* merged document is not.
C20_PolishFallback ==
  pc = "done" =>
    /\ output \in (PolishTexts \ {EmptyText}) \cup {merged}
    /\ merged # EmptyText => output # EmptyText

C20_Witness ==
  /\ pc = "done"
  /\ output = merged
  /\ merged # EmptyText /\ merged \notin PolishTexts

\* C21 as stated: a failed polish call ends the invocation with the error, and
\* the merged document is not lost: it is what the invocation leaves to its
\* caller.
C21_PolishFailureKeepsMerged ==
  error = "PolishFailed" => (pc = "failed" /\ output = merged)

\* The name a file was given in its directory.
NameOf(f) ==
  CHOOSE b \in FileNames : \E d \in FileDirs : f.path = d \o <<"/">> \o b

\* The number of the three fingerprint inputs in which two files differ.
InputsChanged(f, g) ==
  (IF NameOf(f) # NameOf(g) THEN 1 ELSE 0)
    + (IF f.size # g.size THEN 1 ELSE 0)
    + (IF f.mtime # g.mtime THEN 1 ELSE 0)

\* C22: two files of the same basename, size and mtime have the same
\* fingerprint, whatever their directories and contents; two files that
\* differ in exactly one of basename, size and mtime have different ones.
C22_FingerprintDeterminism ==
  res.fn = "calculateFileHash" =>
    \A g \in Files :
      /\ InputsChanged(arg.file, g) = 0 => calculateFileHash(g) = res.value
      /\ InputsChanged(arg.file, g) = 1 => calculateFileHash(g) # res.value

C22_Witness ==
  /\ res.fn = "calculateFileHash"
  /\ \E g \in Files :
       /\ InputsChanged(arg.file, g) = 0
       /\ g.path # arg.file.path /\ g.content # arg.file.content
       /\ calculateFileHash(g) = res.value
  /\ \E g \in Files :
       /\ NameOf(g) # NameOf(arg.file)
       /\ g.size = arg.file.size /\ g.mtime = arg.file.mtime
       /\ calculateFileHash(g) # res.value

\* The tokens of a text joined by single spaces: its non-empty words.
Tokens(words) == SelectSeq(words, LAMBDA w : w # "")

EndsInWhiteSpace(text) == Len(text) > 1 /\ text[Len(text)] = <<>>

\* C23 as stated: the trailing text holds the last 500 tokens of the full
\* text (all of them if there are fewer), never more than 500, whatever the
\* prior context.
C23_TrailingText ==
  res.fn = "updateContext" =>
    LET kept == Tokens(res.value.previousTranscript)
    IN  /\ kept = LastN(Flatten(arg.transcript.transcript), ContextWords)
        /\ Len(kept) <= ContextWords
        /\ \A prior \in PriorContexts :
             UpdateContext(prior, arg.transcript).previousTranscript
               = res.value.previousTranscript

\* C23 amended: the trailing text holds the last 500 tokens of the full text,
\* or the last 499 when the full text ends in white space (all of them if
\* there are fewer); never more than 500, whatever the prior context.
C23_TrailingTextAmended ==
  res.fn = "updateContext" =>
    LET kept == Tokens(res.value.previousTranscript)
        room == IF EndsInWhiteSpace(arg.transcript.transcript)
                  THEN ContextWords - 1 ELSE ContextWords
        toks == Flatten(arg.transcript.transcript)
    IN  /\ kept = (IF Len(toks) <= room THEN toks
                   ELSE SubSeq(toks, Len(toks) - room + 1, Len(toks)))
        /\ Len(kept) <= ContextWords
        /\ \A prior \in PriorContexts :
             UpdateContext(prior, arg.transcript).previousTranscript
               = res.value.previousTranscript

C23_Witness ==
  /\ res.fn = "updateContext"
  /\ Len(Flatten(arg.transcript.transcript)) > ContextWords
  /\ ~EndsInWhiteSpace(arg.transcript.transcript)
  /\ arg.context # EmptyContext
  /\ Len(Tokens(res.value.previousTranscript)) = ContextWords

RosterIds(roster) == { roster[k].id : k \in 1..Len(roster) }

SpeakersSeen(ts) == UNION { { t.speakers.items[k] : k \in 1..Len(t.speakers.items) } :
                              t \in { ts[j] : j \in 1..Len(ts) } }

\* The roster before the latest update.
RosterNow == IF res = NoCall THEN arg.context.speakers ELSE res.value.speakers

\* C24: every update returns the prior roster, its entries untouched, plus one
\* entry name -> name for each speaker of the transcript that had none; so the
\* roster only grows and its names are those of the first roster and of all
\* speaker sets seen.
C24_RosterGrows ==
  [][arg' # arg =>
       LET old == RosterNow
           new == res'.value.speakers
           t == arg'.transcripts[Len(arg'.transcripts)]
           added == { n \in SpeakersSeen(<<t>>) : n \notin RosterIds(old) }
       IN  /\ Len(new) = Len(old) + Cardinality(added)
           /\ \A k \in 1..Len(old) : new[k] = old[k]
           /\ \A k \in (Len(old) + 1)..Len(new) :
                new[k].id \in added /\ new[k].name = new[k].id
           /\ RosterIds(new) = RosterIds(old) \cup SpeakersSeen(<<t>>)
           /\ RosterIds(new)
                = RosterIds(arg.context.speakers) \cup SpeakersSeen(arg'.transcripts)
    ]_vars

C24_Witness ==
  /\ res.fn = "updateContext"
  /\ Len(arg.transcripts) = MaxUpdates
  /\ arg.context # EmptyContext
  /\ RosterIds(res.value.speakers) = {"A", "B", "C"}
  /\ \E k \in 1..Len(res.value.speakers) :
       res.value.speakers[k] = [id |-> "A", name |-> "Alice"]

\* The places of a line in a text.
PlacesOf(line, text) == { i \in 1..Len(text) : text[i] = line }

\* The entry the prompt must hold for a roster member.
ExpectedEntry(ctx, entry) ==
  LET descs == { ctx.speakerDescriptions[k].desc :
                   k \in { j \in 1..Len(ctx.speakerDescriptions) :
                             /\ ctx.speakerDescriptions[j].id = entry.id
                             /\ ctx.speakerDescriptions[j].desc # "" } }
  IN  IF descs = {} THEN <<"-", entry.name>>
      ELSE <<"-", entry.name, ":", CHOOSE d \in descs : TRUE>>

\* C25: the prompt is fixed by the context and holds, in this order: the
\* instructions; the previous-context header and the trailing text, exactly
\* when the trailing text is not the empty string; the speakers header, one
\* entry per roster member in roster order (with its description when it has
\* a non-empty one) and the footer, exactly when the roster is not empty; the
\* closing directive as the last line.  Every other line is empty.
C25_PromptSections ==
  res.fn = "buildContextualPrompt" =>
    LET c == arg.context
        p == res.value
        n == Len(c.speakers)
        hasPrev == c.previousTranscript \notin {<<>>, <<"">>}
        prevAt == PlacesOf(PreviousHeader, p)
        spkAt == PlacesOf(SpeakersHeader, p)
        content == SelectSeq(p, LAMBDA l : l # <<>>)
        expected ==
          SelectSeq(Instructions, LAMBDA l : l # <<>>)
            \o (IF hasPrev THEN <<PreviousHeader, c.previousTranscript>> ELSE <<>>)
            \o (IF n > 0
                  THEN <<SpeakersHeader>>
                         \o [k \in 1..n |-> ExpectedEntry(c, c.speakers[k])]
                         \o <<SpeakersFooter>>
                  ELSE <<>>)
            \o <<Closing>>
    IN  /\ p = buildContextualPrompt(c)
        /\ SubSeq(p, 1, 6) = SubSeq(Instructions, 1, 6)
        /\ p[Len(p)] = Closing
        /\ Cardinality(prevAt) = (IF hasPrev THEN 1 ELSE 0)
        /\ Cardinality(spkAt) = (IF n > 0 THEN 1 ELSE 0)
        /\ \A i \in prevAt : i > 6 /\ \A j \in spkAt : i < j
        /\ \A j \in spkAt : j > 6 /\ j + n + 2 < Len(p)
        /\ content = expected

C25_Witness ==
  /\ res.fn = "buildContextualPrompt"
  /\ arg.context.previousTranscript = <<"a", "b">>
  /\ Len(arg.context.speakers) = 2
  /\ \E i \in 1..Len(res.value) : res.value[i] = <<"-", "Alice", ":", "host">>
  /\ \E i \in 1..Len(res.value) : res.value[i] = <<"-", "B">>

\* C26: updateContext returns a new context object and writes to no object
\* that existed before the call: the input context, its roster and its
\* descriptions are as they were; the returned context refers to the very
\* descriptions object of the input and to a roster object of its own, and
\* its value is the updated context.
C26_NoSideEffects ==
  res.fn = "updateContext" =>
    LET before == arg.heap
        after == res.heap
        input == before[arg.context]
        result == after[res.value]
    IN  /\ res.value \notin 1..Len(before)
        /\ \A r \in 1..Len(before) : after[r] = before[r]
        /\ result.speakerDescriptions = input.speakerDescriptions
        /\ result.speakers \notin 1..Len(before)
        /\ Deref(after, arg.context) = Deref(before, arg.context)
        /\ Deref(after, res.value)
             = UpdateContext(Deref(before, arg.context), arg.transcript)

C26_Witness ==
  /\ res.fn = "updateContext"
  /\ Len(res.heap[res.heap[res.value].speakers]) > Len(arg.heap[1])
  /\ arg.heap[1] # <<>> /\ arg.heap[2] # <<>>
  /\ res.heap[res.value].previousTranscript # arg.heap[arg.context].previousTranscript

\* The state of chunk i in the running invocation: DONE once the loop has
\* passed it, FAILED when the loop threw at it, PENDING before.  A chunk is
\* CACHED or IN_PROGRESS inside the step that takes it out of PENDING.
Status(i) ==
  IF i < pos THEN "DONE"
  ELSE IF i = pos /\ pc = "failed" /\ error \in {"TranscriptionFailed", "TypeError"}
    THEN "FAILED"
  ELSE "PENDING"

CallsOf(op, index) ==
  Cardinality({ k \in 1..Len(calls) : calls[k].op = op /\ calls[k].index = index })

\* C28: within one invocation the engine is called at most once per chunk,
\* the export at most once per chunk and the polish at most once; an error
\* ends the invocation, which makes no further call.
C28_NoRetry ==
  [][/\ \A i \in 0..MaxDurationUnits :
          CallsOf("transcribe", i)' <= 1 /\ CallsOf("export", i)' <= 1
     /\ CallsOf("polish", 0)' <= 1 /\ CallsOf("merge", 0)' <= 1
     /\ error' # "none" => pc' = "failed"
     /\ (error # "none" /\ run' = run) => UNCHANGED vars
    ]_vars

C28_Witness ==
  /\ error = "TranscriptionFailed"
  /\ pos = 1
  /\ CallsOf("transcribe", 0) = 1 /\ CallsOf("transcribe", 1) = 1

RECURSIVE RosterOfLive(_)
\* One entry name -> name per speaker of the live transcripts of chunks
\* 0..n-1, in the order of first appearance.
RosterOfLive(n) ==
  IF n = 0 THEN <<>>
  ELSE LET before == RosterOfLive(n - 1)
           names == live[n - 1].speakers.items
           fresh == SelectSeq(names, LAMBDA x : \A k \in 1..Len(before) : before[k].id # x)
       IN  before \o [k \in 1..Len(fresh) |-> [id |-> fresh[k], name |-> fresh[k]]]

\* C29 as stated: the prompt sent for chunk i is buildContextualPrompt of
\* updateContext folded over the transcripts of chunks 0..i-1 as they were
\* produced, its trailing text from chunk i-1 alone and its roster the union
\* of their speaker sets, chunk 0 being prompted with the empty context; and
\* this carries over chunks read from the cache, which the fold takes like
\* live ones.
C29_PromptFromFold ==
  [][/\ (Len(calls') = Len(calls) + 1 /\ calls'[Len(calls')].op = "transcribe") =>
          LET i == calls'[Len(calls')].index
              expected ==
                IF i = 0 THEN EmptyContext
                ELSE [previousTranscript |->
                        LastN(Words(live[i - 1].transcript), ContextWords),
                      speakers |-> RosterOfLive(i),
                      speakerDescriptions |-> <<>>]
          IN  /\ i = pos
              /\ calls'[Len(calls')].prompt = buildContextualPrompt(expected)
              /\ expected = FoldLive(i)
     /\ (InLoop /\ HasCached /\ pc' # "crashed") =>
          (pc' = "loop" /\ context' = FoldLive(pos + 1))
    ]_vars

\* C30: when mergeOverlaps has been invoked, its input holds one transcript
\* per chunk of the record, the transcript of chunk i at place i, each either
\* returned by the one engine call the invocation made for the chunk or taken
\* from the record without a call.
C30_MergeInput ==
  HasCall("merge") =>
    /\ Len(transcripts) = Len(Chunks)
    /\ CallsOf("merge", 0) = 1
    /\ merged = mergeOverlaps(transcripts)
    /\ \A i \in 0..(Len(Chunks) - 1) :
         /\ Chunks[i + 1].index = i
         /\ transcripts[i + 1].chunkIndex = i
         /\ \/ CallsOf("transcribe", i) = 1 /\ transcripts[i + 1] = live[i]
            \/ /\ CallsOf("transcribe", i) = 0
               /\ i \in DOMAIN metadata.transcripts
               /\ transcripts[i + 1] = metadata.transcripts[i]

C30_Witness ==
  /\ HasCall("merge")
  /\ Len(Chunks) = 3 /\ Len(transcripts) = 3
  /\ transcripts[2] # transcripts[3]

\* A cache an invocation can resume from: no record, or a record that loads
\* and whose transcripts are whole, as transcribeChunk returned them.
Resumable(d) ==
  \/ d = Absent
  \/ /\ d.kind = "json"
     /\ \A j \in DOMAIN d.rec.transcripts : d.rec.transcripts[j] = live[j]

\* C31 as stated: the output is written only when every chunk is done and the
\* merge and the polish have returned, once; an invocation that failed has
\* written no output and leaves a cache that can be resumed from.
C31_OutputOnlyAtEnd ==
  /\ output # NoText =>
       /\ pc = "done" /\ pos = Len(Chunks)
       /\ CallsOf("merge", 0) = 1 /\ CallsOf("polish", 0) = 1
  /\ error # "none" => (output = NoText /\ Resumable(disk))

\* The least n with n * chunkDuration >= d, 0 for d <= 0.
CeilWindows(d) ==
  IF d <= 0 THEN 0
  ELSE CHOOSE n \in 1..d : n * chunkDuration >= d /\ (n - 1) * chunkDuration < d

\* C32: for every probed duration the planning comes to its end, with
\* ceil(duration / chunkDuration) chunks of indices 0..N-1 and with no chunk
\* and no error for a duration of 0 or less.
C32_PlanningTerminates ==
  <>[](/\ pc = "loop" /\ error = "none"
       /\ Len(planned) = CeilWindows(audioDuration)
       /\ \A i \in 1..Len(planned) : planned[i].index = i - 1
       /\ metadata.chunks = planned)

C32_Witness ==
  /\ pc = "loop"
  /\ audioDuration = 2 * chunkDuration + 1
  /\ Len(planned) = 3

\* C33: in a plan every chunk but the last is at least chunkDuration long,
\* and the last chunk ends at the probed duration.
C33_OnlyLastShorter ==
  (pc = "loop" /\ planned # <<>>) =>
    /\ \A k \in 1..(Len(planned) - 1) :
         /\ planned[k].duration >= chunkDuration
         /\ planned[k].endTime - planned[k].startTime >= chunkDuration
    /\ planned[Len(planned)].endTime = audioDuration

C33_Witness ==
  /\ pc = "loop" /\ Len(planned) = 3
  /\ audioDuration = 2 * chunkDuration + 1
  /\ planned[3].duration = overlapDuration + 1
  /\ planned[2].duration = chunkDuration + overlapDuration

\* C34: a save over an existing record changes nothing but the transcripts
\* map, to which it adds the entry of the chunk just transcribed: the other
\* fields and the entries already there are as they were; no save takes the
\* record away.
C34_SaveAddsOneTranscript ==
  [][(disk.kind = "json" /\ disk' # disk /\ disk'.kind # "garbage") =>
       /\ disk'.kind = "json"
       /\ [disk'.rec EXCEPT !.transcripts = disk.rec.transcripts] = disk.rec
       /\ pos \notin DOMAIN disk.rec.transcripts
       /\ DOMAIN disk'.rec.transcripts = DOMAIN disk.rec.transcripts \cup {pos}
       /\ \A j \in DOMAIN disk.rec.transcripts :
            disk'.rec.transcripts[j] = disk.rec.transcripts[j]
       /\ disk'.rec.transcripts[pos].chunkIndex = pos
       /\ disk'.rec.transcripts[pos].transcript = live'[pos].transcript
       /\ calls'[Len(calls')].op = "transcribe" /\ calls'[Len(calls')].index = pos
    ]_vars

C34_Witness ==
  /\ disk.kind = "json"
  /\ Len(disk.rec.chunks) = 3
  /\ DOMAIN disk.rec.transcripts = {0, 1}
  /\ pc = "loop" /\ pos = 2

\* The names of the bold labels that start a line of a text.
LineStartNames(text) ==
  { LabelName(text[i][1]) : i \in { j \in 1..Len(text) :
                                      text[j] # <<>> /\ IsLabel(text[j][1]) } }

\* C35 as stated: the speakers of a parsed transcript are the names of the
\* bold labels that start a line of the raw text; a label elsewhere in a
\* line adds none.
C35_SpeakersAtLineStart ==
  res.fn = "transcribeChunk" =>
    { res.value.speakers.items[k] : k \in 1..Len(res.value.speakers.items) }
      = LineStartNames(arg.raw)

\* C36: over any sequence of invocations, failed and crashed ones among them,
\* the indices of the transcripts in the persisted record are 0..k-1 for
\* some k: none is there while a smaller one is missing.
C36_PersistedPrefix ==
  disk.kind = "json" =>
    \E k \in 0..Len(disk.rec.chunks) :
      DOMAIN disk.rec.transcripts = 0..(k - 1)

C36_Witness ==
  /\ run >= 2 /\ pc = "failed" /\ error = "TypeError"
  /\ disk.kind = "json"
  /\ Len(disk.rec.chunks) = 3
  /\ DOMAIN disk.rec.transcripts = 0..1

\* The lines of a string, the empty string having none.
LineCount(text) == IF text = EmptyText THEN 0 ELSE Len(text)

\* C37 as stated: with hasOverlap at least one line is overlap, whatever the
\* answer, so mainContent has fewer lines than the transcript and is empty
\* for an answer of one line; without hasOverlap it is the transcript.
C37_OverlapAtLeastOne ==
  res.fn = "transcribeChunk" =>
    LET raw == arg.raw
        t == res.value
    IN  /\ arg.chunk.hasOverlap =>
             /\ TenthUp(Len(raw)) >= 1
             /\ t.overlapContent
                  = TextOf(SubSeq(raw, Len(raw) - TenthUp(Len(raw)) + 1, Len(raw)))
             /\ LineCount(t.mainContent) < LineCount(t.transcript)
             /\ Len(raw) = 1 => t.mainContent = EmptyText
        /\ ~arg.chunk.hasOverlap => t.mainContent = t.transcript

\* C37 amended: with hasOverlap at least one of the lines that split('\n')
\* gives is overlap, whatever the answer, so mainContent keeps fewer of them
\* than there are; it has fewer lines than the transcript unless the answer
\* is empty, where both are the empty string; it is empty for an answer of
\* one line, which then adds the empty string to the merged document.
\* Without hasOverlap it is the transcript.
C37_OverlapAtLeastOneAmended ==
  res.fn = "transcribeChunk" =>
    LET raw == arg.raw
        t == res.value
        k == TenthUp(Len(raw))
    IN  /\ arg.chunk.hasOverlap =>
             /\ k >= 1
             /\ t.overlapContent = TextOf(SubSeq(raw, Len(raw) - k + 1, Len(raw)))
             /\ t.mainContent = TextOf(SubSeq(raw, 1, Len(raw) - k))
             /\ raw # EmptyText => LineCount(t.mainContent) < LineCount(t.transcript)
             /\ raw = EmptyText => t.mainContent = t.transcript
             /\ Len(raw) = 1 =>
                  /\ t.mainContent = EmptyText
                  /\ mergeOverlaps(<<t, t>>) = raw \o << <<>>, <<"---">>, <<>> >> \o EmptyText
        /\ ~arg.chunk.hasOverlap => t.mainContent = t.transcript

C37_Witness ==
  /\ res.fn = "transcribeChunk"
  /\ arg.chunk.hasOverlap
  /\ Len(arg.raw) = 1 /\ arg.raw # EmptyText
  /\ res.value.mainContent = EmptyText
  /\ res.value.overlapContent = arg.raw

\* C38: in every saved record with at least one chunk, the recorded duration
\* is the endTime of the last chunk of the record.
C38_RecordedDuration ==
  (disk \notin {Absent, Garbage} /\ Len(disk.rec.chunks) >= 1)
    => disk.rec.duration = disk.rec.chunks[Len(disk.rec.chunks)].endTime

Persisted(d) == IF d.kind = "json" THEN d.rec.transcripts ELSE <<>>

\* C39: with two invocations running at once on the same source, an entry that
\* is in metadata.json is still there, unchanged, after every later save.
C39_NeverRegressed ==
  [][\A i \in DOMAIN Persisted(disk) :
        /\ i \in DOMAIN Persisted(disk')
        /\ Persisted(disk')[i] = Persisted(disk)[i]]_vars

Digits == { ToString(d) : d \in 0..9 }
DigitValue(c) == CHOOSE d \in 0..9 : ToString(d) = c

\* The number a string of digits spells.
RECURSIVE NumberSpelled(_)
NumberSpelled(chars) ==
  IF chars = <<>> THEN 0
  ELSE 10 * NumberSpelled(SubSeq(chars, 1, Len(chars) - 1)) + DigitValue(chars[Len(chars)])

====
